---- MODULE Spec2Model ----
(***************************************************************************)
(* Model of src/app.py: the material catalog, calculate_model_data,        *)
(* plot_stl_with_arrows and the Streamlit script body (left column loop,   *)
(* right column grid).                                                     *)
(*                                                                         *)
(* Number representation (exact fixed point instead of binary floats):     *)
(*   density        thousandths of g/cm3      (1.250 -> 1250)              *)
(*   mesh volume    mm3, mesh area mm2, extents and coordinates mm         *)
(*   infill         hundredths (the fraction f is infill/100)              *)
(*   mass_100       1e-6 g   = volume_mm3 * density_milli                  *)
(*   mass_infill    1e-8 g   = mass_100 * infill_hundredths                *)
(* Formatting with :.2f / :.4f is modelled as rounding to that many        *)
(* decimals (ties to even).                                                *)
(***************************************************************************)
EXTENDS Integers, Sequences, FiniteSets, TLC

VARIABLES
    uploaded_files,      \* st.file_uploader result: sequence of [name, content]
    infill_percent,      \* st.slider value
    session,             \* widget key -> current widget value (st.session_state)
    all_meshes,          \* dict name -> mesh            (insertion ordered)
    all_model_info,      \* dict name -> model_info
    all_mass_dfs,        \* dict name -> mass table
    measure_lines_dict,  \* dict name -> list of one line
    run,                 \* what the last script run did and displayed
    call                 \* last direct call of a function (unit specification)

vars == << uploaded_files, infill_percent, session, all_meshes, all_model_info,
           all_mass_dfs, measure_lines_dict, run, call >>

appVars == << uploaded_files, infill_percent, session, all_meshes, all_model_info,
              all_mass_dfs, measure_lines_dict, run >>

(***************************** bounds **************************************)
\* most files uploaded at once
MaxFiles == 2
\* the selectbox offers every catalog entry; the model explores the first ones
MaxMaterialChoice == 2
\* slider positions explored by the application model: 100, 50, ... downwards
MaxInfillNotch == 1
\* direct calls: how far past [0, 1] the infill argument goes, in steps of 0.05
MaxInfillOvershoot == 2
\* direct calls: how far past the valid vertex indices the index goes
IndexMargin == 1

(************************* Python helpers **********************************)
\* round(n / d) to an integer, ties to even: what "{x:.2f}" does to x = n/d/100
RoundHalfEven(n, d) ==
    LET q == n \div d
        r == n % d
    IN  IF 2 * r < d THEN q
        ELSE IF 2 * r > d THEN q + 1
        ELSE IF q % 2 = 0 THEN q ELSE q + 1

RECURSIVE ISqrtIn(_, _, _)
\* floor(sqrt(x)) by bisection on lo..hi (lo*lo <= x < (hi+1)*(hi+1))
ISqrtIn(lo, hi, x) ==
    IF lo >= hi THEN lo
    ELSE LET mid == (lo + hi + 1) \div 2
         IN  IF mid * mid <= x THEN ISqrtIn(mid, hi, x) ELSE ISqrtIn(lo, mid - 1, x)

ISqrt(x) == ISqrtIn(0, IF x > 40000 THEN 40000 ELSE x, x)

\* Python dict as an insertion-ordered sequence of <<key, value>>
DictKeys(d) == { d[i][1] : i \in 1..Len(d) }

DictHas(d, k) == k \in DictKeys(d)

DictGet(d, k) == d[CHOOSE i \in 1..Len(d) : d[i][1] = k][2]

\* d[k] = v : a new key is appended, an existing key keeps its position
DictPut(d, k, v) ==
    IF DictHas(d, k)
    THEN [i \in 1..Len(d) |-> IF d[i][1] = k THEN <<k, v>> ELSE d[i]]
    ELSE Append(d, <<k, v>>)

(************************* material catalog ********************************)
MATERIALS ==
    << <<"PLA", 1250>>, <<"PETG", 1270>>, <<"ABS", 1020>>, <<"Resin", 1200>>,
       <<"TPU (Rubber-like)", 1200>>,
       <<"Polyamide_SLS", 950>>, <<"Polyamide_MJF", 1010>>, <<"Plexiglass", 1180>>,
       <<"Alumide", 1360>>,
       <<"Carbon Steel", 7800>>, <<"Steel", 7860>>, <<"Aluminum", 2698>>,
       <<"Titanium", 4410>>,
       <<"Brass", 8600>>, <<"Bronze", 9000>>, <<"Copper", 9000>>, <<"Silver", 10260>>,
       <<"Gold_14K", 13600>>, <<"Gold_18K", 15600>>, <<"3k CFRP", 1790>>,
       <<"Red Oak", 5700>> >>

(************************* geometry loader *********************************)
\* File contents the model uploads. What trimesh.load returns for each is
\* data of the external loader: the vertices after merging, the faces, and
\* the loader's area, volume and bounding extents for them.
\*   "tri"   one triangle (10,0,0) (0,30,0) (0,0,20): area 350, signed volume 1000
\*   "flat"  one degenerate triangle with two distinct corners
\*   "point" one degenerate triangle whose corners coincide
\*   "bad"   bytes the loader rejects
Contents == {"tri", "flat", "point", "bad"}

FileNames == {"a.stl", "b.stl"}

\* the files the user can pick in the uploader
FilesOnDisk ==
    { [name |-> "a.stl", content |-> "tri"],
      [name |-> "a.stl", content |-> "flat"],
      [name |-> "b.stl", content |-> "flat"],
      [name |-> "b.stl", content |-> "point"],
      [name |-> "b.stl", content |-> "bad"] }

FileSize(content) ==
    CASE content = "tri" -> 134
      [] content = "flat" -> 128
      [] content = "point" -> 684
      [] OTHER -> 40

LoadedMesh(content) ==
    CASE content = "tri" ->
            [vertices |-> << <<10, 0, 0>>, <<0, 30, 0>>, <<0, 0, 20>> >>,
             faces |-> << <<0, 1, 2>> >>,
             extents |-> <<10, 30, 20>>, area |-> 350, volume |-> 1000]
      [] content = "flat" ->
            [vertices |-> << <<0, 0, 0>>, <<10, 0, 0>> >>,
             faces |-> << <<0, 0, 1>> >>,
             extents |-> <<10, 0, 0>>, area |-> 0, volume |-> 0]
      [] OTHER ->
            [vertices |-> << <<5, 5, 5>> >>,
             faces |-> << <<0, 0, 0>> >>,
             extents |-> <<0, 0, 0>>, area |-> 0, volume |-> 0]

\* trimesh.load(file, file_type=ext, force="mesh"): a mesh, or an exception.
\* ext (lines 132-133) is "stl" for every file of the model; the outcome is
\* decided by the bytes.
TrimeshLoad(content) ==
    IF content = "bad"
    THEN [ok |-> FALSE, error |-> "LoadError"]
    ELSE [ok |-> TRUE, mesh |-> LoadedMesh(content)]

(************************* calculate_model_data ****************************)
\* the "Mass @{infill*100:.1f}% (g)" header: the percentage in tenths
InfillColumnLabel(infill) == RoundHalfEven(infill * 100 * 10, 100)

\* lines 29-35: the formatted values, in units of the last printed decimal
ModelInfo(mesh, size) ==
    [file_size |-> RoundHalfEven(size * 100, 1024),
     triangles |-> Len(mesh.faces),
     bounds |-> [k \in 1..3 |-> RoundHalfEven(mesh.extents[k] * 100, 10)],
     surface_area |-> RoundHalfEven(mesh.area * 10000, 100),
     volume |-> RoundHalfEven(mesh.volume * 10000, 1000)]

\* line 38: enumerate(MATERIALS.items(), start=1)
EnumerateMaterials == [i \in 1..Len(MATERIALS) |-> <<i, MATERIALS[i][1], MATERIALS[i][2]>>]

Mass100(volume, density) == volume * density

\* faulty variant: the infill factor is not applied
MassInfillNotApplied(mass_100, infill) == mass_100 * 100

MassInfill(mass_100, infill) == mass_100 * infill

\* faulty variant: the loop stops one catalog entry early
MassRowsShort(volume, infill) ==
    [r \in 1..(Len(EnumerateMaterials) - 1) |->
        [ID |-> EnumerateMaterials[r][1], Material |-> EnumerateMaterials[r][2],
         Density |-> EnumerateMaterials[r][3],
         mass_infill |-> MassInfill(Mass100(volume, EnumerateMaterials[r][3]), infill),
         mass_100 |-> Mass100(volume, EnumerateMaterials[r][3])]]

\* lines 37-46: one row per enumerated catalog entry
MassRows(volume, infill) ==
    [r \in 1..Len(EnumerateMaterials) |->
        LET e == EnumerateMaterials[r]
            mass_100 == Mass100(volume, e[3])
        IN  [ID |-> e[1], Material |-> e[2], Density |-> e[3],
             mass_infill |-> MassInfill(mass_100, infill),
             mass_100 |-> mass_100]]

MassFrame(volume, infill) ==
    [infill_label |-> InfillColumnLabel(infill), rows |-> MassRows(volume, infill)]

\* lines 21-47; infill is used as given (no range test, no clamp)
calculate_model_data(content, infill) ==
    LET loaded == TrimeshLoad(content)
    IN  IF ~loaded.ok
        THEN [ok |-> FALSE, error |-> loaded.error]
        ELSE [ok |-> TRUE,
              mesh |-> loaded.mesh,
              model_info |-> ModelInfo(loaded.mesh, FileSize(content)),
              df |-> MassFrame(loaded.mesh.volume, infill)]

(************************* measurement line ********************************)
\* numpy indexing a[i] of an array of n rows: 0..n-1 from the front,
\* -n..-1 from the back, anything else raises IndexError
NumpyIndex(arr, i) ==
    LET n == Len(arr)
    IN  IF 0 <= i /\ i < n THEN [ok |-> TRUE, value |-> arr[i + 1]]
        ELSE IF -n <= i /\ i < 0 THEN [ok |-> TRUE, value |-> arr[n + i + 1]]
        ELSE [ok |-> FALSE, error |-> "IndexError"]

\* line 146: [[mesh.vertices[point1_idx], mesh.vertices[point2_idx]]]
MeasureLines(mesh, point1_idx, point2_idx) ==
    LET p1 == NumpyIndex(mesh.vertices, point1_idx)
        p2 == NumpyIndex(mesh.vertices, point2_idx)
    IN  IF p1.ok /\ p2.ok
        THEN [ok |-> TRUE, lines |-> << <<p1.value, p2.value>> >>]
        ELSE [ok |-> FALSE, error |-> "IndexError"]

\* p1 - p2 and the square of np.linalg.norm of it
VecSub(p1, p2) == [k \in 1..3 |-> p1[k] - p2[k]]

\* faulty variant: the last component is not squared
NormSquaredSigned(v) == v[1] * v[1] + v[2] * v[2] + v[3]

NormSquared(v) == v[1] * v[1] + v[2] * v[2] + v[3] * v[3]

\* f"{np.linalg.norm(p1-p2)/10:.2f}": hundredths of a cm, i.e. round(10*sqrt(d2))
DistanceText(p1, p2) ==
    LET d2 == NormSquared(VecSub(p1, p2))
    IN  (ISqrt(400 * d2) + 1) \div 2

(************************* plot_stl_with_arrows ****************************)
\* lines 58-64: the per-vertex intensity. vertex_defects and centroid are
\* values of the loader; only the branch taken and the z column are modelled.
VertexColors(mesh, color_by) ==
    IF color_by = "z"
    THEN [field |-> "z", z |-> [i \in 1..Len(mesh.vertices) |-> mesh.vertices[i][3]]]
    ELSE IF color_by = "curvature"
    THEN [field |-> "vertex_defects", z |-> << >>]
    ELSE [field |-> "centroid_distance", z |-> << >>]

\* lines 76-88: one Scatter3d trace per measurement line
LineTraces(measure_lines) ==
    [t \in 1..Len(measure_lines) |->
        [p1 |-> measure_lines[t][1], p2 |-> measure_lines[t][2],
         text |-> DistanceText(measure_lines[t][1], measure_lines[t][2])]]

\* lines 90-99: material name and f"{mass_value:.2f}" (hundredths of a gram)
Annotation(material_name, mass_value) ==
    [material |-> material_name, mass |-> RoundHalfEven(mass_value, 10000)]

plot_stl_with_arrows(mesh, material_name, mass_value, color_by, measure_lines) ==
    [mesh3d |-> [vertices |-> mesh.vertices, faces |-> mesh.faces,
                 intensity |-> VertexColors(mesh, color_by)],
     traces |-> LineTraces(measure_lines),
     annotation |-> Annotation(material_name, mass_value)]

(************************* Streamlit widgets *******************************)
\* Widgets are the external presentation layer. A widget returns the value the
\* user last gave it when that value is still one the widget offers, else its
\* default. Two widgets with one key in one run raise DuplicateWidgetID. A
\* number_input whose default lies outside [min_value, max_value] raises in
\* builds that validate the default and returns the default in builds that do
\* not (strict = FALSE): both outcomes are kept.
number_input(sess, keys, key, min_value, max_value, value, strict) ==
    IF key \in keys
    THEN [ok |-> FALSE, error |-> "DuplicateWidgetID"]
    ELSE IF value < min_value \/ value > max_value
    THEN IF strict
         THEN [ok |-> FALSE, error |-> "StreamlitAPIException"]
         ELSE [ok |-> TRUE, value |-> value]
    ELSE IF key \in DOMAIN sess /\ sess[key] \in min_value..max_value
    THEN [ok |-> TRUE, value |-> sess[key]]
    ELSE [ok |-> TRUE, value |-> value]

\* st.selectbox / st.radio: the stored choice if offered, else the first option
choice_widget(sess, key, options) ==
    IF key \in DOMAIN sess /\ (\E i \in 1..Len(options) : options[i] = sess[key])
    THEN sess[key]
    ELSE options[1]

MaterialNames == [i \in 1..Len(MATERIALS) |-> MATERIALS[i][1]]

ColorModes == <<"z", "curvature", "distance">>

(************************* script: left column *****************************)
\* faulty variant: the dicts are not rebuilt, entries of the previous run stay
KeptDicts(prev) == prev

\* lines 125-128: the four dicts of a run start empty, whatever the previous
\* run left in them
NewDicts(prev) ==
    [meshes |-> << >>, infos |-> << >>, dfs |-> << >>, lines |-> << >>]

\* state of a run in progress
RunStart(prev) ==
    [dicts |-> NewDicts(prev),
     keys |-> {},               \* widget keys built so far in this run
     values |-> << >>,          \* <<key, value>> each widget returned
     error |-> "none",          \* the uncaught exception that ended the run
     successes |-> << >>,       \* st.success lines shown
     measured |-> << >>]        \* every evaluation of line 146

Fail(st, err) == [st EXCEPT !.error = err]

\* line 146: the measurement line is stored, or IndexError ends the run
StoreLine(name, st, built) ==
    IF ~built.ok THEN Fail(st, built.error)
    ELSE [st EXCEPT !.dicts.lines = DictPut(@, name, built.lines)]

\* lines 145-146: the second index widget was built (or raised)
AfterVertex2(name, mesh, point1_idx, st, w2) ==
    IF ~w2.ok THEN Fail(st, w2.error)
    ELSE StoreLine(name,
                   [st EXCEPT !.keys = @ \cup {<<"v2", name>>},
                              !.values = Append(@, << <<"v2", name>>, w2.value >>),
                              !.measured = Append(@, [name |-> name,
                                                      vertex_count |-> Len(mesh.vertices),
                                                      point1_idx |-> point1_idx,
                                                      point2_idx |-> w2.value])],
                   MeasureLines(mesh, point1_idx, w2.value))

\* lines 144-145: the first index widget was built (or raised)
AfterVertex1(name, mesh, sess, strict, st, w1) ==
    IF ~w1.ok THEN Fail(st, w1.error)
    ELSE AfterVertex2(name, mesh, w1.value,
                      [st EXCEPT !.keys = @ \cup {<<"v1", name>>},
                                 !.values = Append(@, << <<"v1", name>>, w1.value >>)],
                      number_input(sess, st.keys \cup {<<"v1", name>>}, <<"v2", name>>,
                                   0, Len(mesh.vertices) - 1, 1, strict))

\* lines 136-144: calculate_model_data returned (or raised)
AfterCalculate(name, data, sess, strict, st) ==
    IF ~data.ok THEN Fail(st, data.error)
    ELSE AfterVertex1(name, data.mesh, sess, strict,
                      [st EXCEPT !.dicts.meshes = DictPut(@, name, data.mesh),
                                 !.dicts.infos = DictPut(@, name, data.model_info),
                                 !.dicts.dfs = DictPut(@, name, data.df)],
                      number_input(sess, st.keys, <<"v1", name>>,
                                   0, Len(data.mesh.vertices) - 1, 0, strict))

\* lines 132-146 for one uploaded file
LeftColumnFile(file, infill, sess, strict, st) ==
    AfterCalculate(file.name, calculate_model_data(file.content, infill), sess, strict,
                   [st EXCEPT !.successes = Append(@, file.name)])

RECURSIVE LeftColumn(_, _, _, _, _, _)
\* line 131: for uploaded_file in uploaded_files, stopped by the first exception
LeftColumn(k, files, infill, sess, strict, st) ==
    IF k > Len(files) \/ st.error # "none" THEN st
    ELSE LeftColumn(k + 1, files, infill, sess, strict,
                    LeftColumnFile(files[k], infill, sess, strict, st))

(************************* script: right column ****************************)
cols_per_row == 2

RECURSIVE GridRow(_, _, _)
\* lines 159-163 for one row: the idx values read from mesh_items
GridRow(r, c, n_files) ==
    IF c >= cols_per_row THEN << >>
    ELSE LET idx == r * cols_per_row + c
         IN  IF idx >= n_files THEN << >>
             ELSE << [r |-> r, c |-> c, idx |-> idx] >> \o GridRow(r, c + 1, n_files)

RECURSIVE GridCells(_, _, _)
\* lines 154-163: for r in range(rows)
GridCells(r, rows, n_files) ==
    IF r >= rows THEN << >>
    ELSE GridRow(r, 0, n_files) \o GridCells(r + 1, rows, n_files)

\* faulty variant: the mass-at-infill cell is read instead (brought to 1e-6 g)
MassValueAtInfill(df, selected_material) ==
    df.rows[CHOOSE r \in 1..Len(df.rows) : df.rows[r].Material = selected_material].mass_infill
        \div 100

\* lines 169-172: the "Mass @100% (g)" cell of the selected material's row
MassValue(df, selected_material) ==
    df.rows[CHOOSE r \in 1..Len(df.rows) : df.rows[r].Material = selected_material].mass_100

\* lines 169-185 for one grid cell, the two widgets of lines 167-168 built
BlockOf(cell, file_name, mesh, selected_material, stress_option, dicts) ==
    [file_name |-> file_name,
     row |-> cell.r, col |-> cell.c, idx |-> cell.idx,
     selected_material |-> selected_material,
     stress_option |-> stress_option,
     fig |-> plot_stl_with_arrows(mesh, selected_material,
                                  MassValue(DictGet(dicts.dfs, file_name), selected_material),
                                  stress_option, DictGet(dicts.lines, file_name)),
     model_info |-> file_name,    \* line 183 shows all_model_info[file_name]
     mass_df |-> file_name]       \* line 185 shows all_mass_dfs[file_name]

\* lines 163-168: file_name, mesh = mesh_items[idx] and the two selections
GridItem(cell, item, dicts, sess) ==
    BlockOf(cell, item[1], item[2],
            choice_widget(sess, <<"mat", item[1]>>, MaterialNames),
            choice_widget(sess, <<"stress", item[1]>>, ColorModes),
            dicts)

GridBlock(cell, dicts, sess) == GridItem(cell, dicts.meshes[cell.idx + 1], dicts, sess)

\* lines 152-157: n_files, rows and the cells the two loops visit
GridOf(n_files) ==
    GridCells(0, (n_files + cols_per_row - 1) \div cols_per_row, n_files)

BlocksOf(cells, dicts, sess) == [k \in 1..Len(cells) |-> GridBlock(cells[k], dicts, sess)]

\* lines 150-185
RightColumn(dicts, sess) == BlocksOf(GridOf(Len(dicts.meshes)), dicts, sess)

(************************* script run **************************************)
\* line 123: infill = infill_percent / 100.0; in hundredths that is the
\* slider's integer
InfillFraction(percent) == (percent * 100) \div 100

\* the widget values of a run, as the session keeps them for the next run;
\* a widget the run did not build starts from its default when built again
SessionOf(values) ==
    [key \in { values[i][1] : i \in 1..Len(values) } |->
        values[CHOOSE i \in 1..Len(values) : values[i][1] = key][2]]

BlockValues(blocks) ==
    [k \in 1..(2 * Len(blocks)) |->
        IF k <= Len(blocks)
        THEN << <<"mat", blocks[k].file_name>>, blocks[k].selected_material >>
        ELSE << <<"stress", blocks[k - Len(blocks)].file_name>>,
                blocks[k - Len(blocks)].stress_option >>]

Outcome(left, blocks) ==
    [dicts |-> left.dicts,
     session |-> SessionOf(left.values \o BlockValues(blocks)),
     run |-> [error |-> left.error,
              successes |-> left.successes,
              measured |-> left.measured,
              blocks |-> blocks]]

\* lines 149-150: the right column is reached only when no exception ended the
\* run in the left column, and shows something only if files are uploaded
WithRightColumn(files, sess, left) ==
    Outcome(left,
            IF Len(files) > 0 /\ left.error = "none"
            THEN RightColumn(left.dicts, sess)
            ELSE << >>)

\* One execution of the script body, top to bottom (lines 114-185)
Script(files, percent, sess, strict, prev) ==
    WithRightColumn(files, sess,
                    IF Len(files) > 0
                    THEN LeftColumn(1, files, InfillFraction(percent), sess, strict,
                                    RunStart(prev))
                    ELSE RunStart(prev))

PrevDicts ==
    [meshes |-> all_meshes, infos |-> all_model_info, dfs |-> all_mass_dfs,
     lines |-> measure_lines_dict]

Commit(files, percent, out) ==
    /\ uploaded_files' = files
    /\ infill_percent' = percent
    /\ session' = out.session
    /\ all_meshes' = out.dicts.meshes
    /\ all_model_info' = out.dicts.infos
    /\ all_mass_dfs' = out.dicts.dfs
    /\ measure_lines_dict' = out.dicts.lines
    /\ run' = out.run
    /\ UNCHANGED call

\* The two outcomes of an out-of-range widget default can differ only in a
\* run that builds such a widget: a file whose mesh has fewer than 2 vertices.
Builds(files) ==
    IF \E k \in 1..Len(files) :
          /\ TrimeshLoad(files[k].content).ok
          /\ Len(TrimeshLoad(files[k].content).mesh.vertices) < 2
    THEN BOOLEAN
    ELSE {TRUE}

\* Streamlit reruns the whole script after every interaction
Rerun(files, percent, sess) ==
    \E strict \in Builds(files) :
        Commit(files, percent, Script(files, percent, sess, strict, PrevDicts))

(************************* user interactions *******************************)
\* line 122: st.slider(..., 0, 100, 100, 5)
SliderPositions == { p \in 0..100 : p % 5 = 0 }

ExploredInfill == { p \in SliderPositions : \E k \in 0..MaxInfillNotch : p = 100 - 50 * k }

ExploredMaterials == { MaterialNames[i] : i \in 1..MaxMaterialChoice }

WithValue(sess, key, value) == [k \in DOMAIN sess |-> IF k = key THEN value ELSE sess[k]]

RemoveAt(seq, k) == [i \in 1..(Len(seq) - 1) |-> IF i < k THEN seq[i] ELSE seq[i + 1]]

\* the upper bound the vertex widgets of a file were built with (lines 143-145)
VertexMax(name) == Len(DictGet(all_meshes, name).vertices) - 1

Init ==
    /\ uploaded_files = << >>
    /\ infill_percent = 100
    /\ session = << >>
    /\ all_meshes = << >>
    /\ all_model_info = << >>
    /\ all_mass_dfs = << >>
    /\ measure_lines_dict = << >>
    /\ run = [error |-> "none", successes |-> << >>, measured |-> << >>, blocks |-> << >>]
    /\ call = [op |-> "none"]

\* the user adds a file to the uploader (line 120)
Upload ==
    /\ Len(uploaded_files) < MaxFiles
    /\ \E file \in FilesOnDisk :
          Rerun(Append(uploaded_files, file), infill_percent, session)

\* the user removes a file from the uploader
RemoveFile ==
    \E k \in 1..Len(uploaded_files) :
        Rerun(RemoveAt(uploaded_files, k), infill_percent, session)

\* the user moves the infill slider (line 122)
SetInfill ==
    \E p \in ExploredInfill \ {infill_percent} :
        Rerun(uploaded_files, p, session)

\* the user picks a material for a file (line 167)
SelectMaterial ==
    \E name \in FileNames, m \in ExploredMaterials :
        /\ <<"mat", name>> \in DOMAIN session
        /\ session[<<"mat", name>>] # m
        /\ Rerun(uploaded_files, infill_percent, WithValue(session, <<"mat", name>>, m))

\* the user picks a colour mode for a file (line 168)
SelectColor ==
    \E name \in FileNames, c \in { ColorModes[i] : i \in 1..Len(ColorModes) } :
        /\ <<"stress", name>> \in DOMAIN session
        /\ session[<<"stress", name>>] # c
        /\ Rerun(uploaded_files, infill_percent, WithValue(session, <<"stress", name>>, c))

\* the user changes a vertex index within the widget's bounds (lines 144-145)
SetVertex1 ==
    \E name \in FileNames :
        /\ <<"v1", name>> \in DOMAIN session
        /\ \E i \in 0..VertexMax(name) :
              /\ session[<<"v1", name>>] # i
              /\ Rerun(uploaded_files, infill_percent, WithValue(session, <<"v1", name>>, i))

SetVertex2 ==
    \E name \in FileNames :
        /\ <<"v2", name>> \in DOMAIN session
        /\ \E j \in 0..VertexMax(name) :
              /\ session[<<"v2", name>>] # j
              /\ Rerun(uploaded_files, infill_percent, WithValue(session, <<"v2", name>>, j))

Next ==
    \/ Upload
    \/ RemoveFile
    \/ SetInfill
    \/ SelectMaterial
    \/ SelectColor
    \/ SetVertex1
    \/ SetVertex2

Spec == Init /\ [][Next]_vars

(************************* direct calls ************************************)
\* calculate_model_data and the line-146 expression applied to arguments the
\* widgets would not produce
InfillArgs == { 5 * k : k \in (0 - MaxInfillOvershoot)..(20 + MaxInfillOvershoot) }

IndexArgs(content) ==
    LET n == Len(LoadedMesh(content).vertices)
    IN  (0 - n - IndexMargin)..(n - 1 + IndexMargin)

CallCalculateModelData ==
    /\ \E content \in Contents, infill \in InfillArgs :
          call' = [op |-> "calculate_model_data", content |-> content, infill |-> infill,
                   result |-> calculate_model_data(content, infill)]
    /\ UNCHANGED appVars

CallMeasureLines ==
    /\ \E content \in Contents \ {"bad"} :
          \E i \in IndexArgs(content), j \in IndexArgs(content) :
              call' = [op |-> "measure_lines", content |-> content,
                       point1_idx |-> i, point2_idx |-> j,
                       result |-> MeasureLines(LoadedMesh(content), i, j)]
    /\ UNCHANGED appVars

NextUnit ==
    \/ CallCalculateModelData
    \/ CallMeasureLines

SpecUnit == Init /\ [][NextUnit]_vars

(************************* claims: direct calls ****************************)
CalculateReturned == call.op = "calculate_model_data" /\ call.result.ok

C2_MassFormula ==
    (CalculateReturned /\ call.infill \in 0..100) =>
        /\ \A r \in 1..Len(MATERIALS) :
              /\ call.result.df.rows[r].mass_100
                    = call.result.mesh.volume * MATERIALS[r][2]
              /\ call.result.df.rows[r].mass_infill
                    = call.result.mesh.volume * MATERIALS[r][2] * call.infill
        /\ (call.result.mesh.volume = 1000) =>
              /\ call.result.df.rows[1].Material = "PLA"
              /\ call.result.df.rows[1].mass_100 = 1250000
              /\ (call.infill = 100 => call.result.df.rows[1].mass_infill = 125000000)
              /\ (call.infill = 50 => call.result.df.rows[1].mass_infill = 62500000)

C2_Witness ==
    /\ CalculateReturned
    /\ call.result.mesh.volume = 1000
    /\ call.infill = 50
    /\ call.result.df.rows[1].mass_infill = 62500000

\* C3 as stated: calculate_model_data called on a loadable file with an infill
\* fraction outside [0, 1] fails with a RangeError and returns no metrics or
\* mass table.
C3_InfillOutOfRangeFails ==
    (/\ call.op = "calculate_model_data"
     /\ TrimeshLoad(call.content).ok
     /\ (call.infill < 0 \/ call.infill > 100)) =>
        (~call.result.ok /\ call.result.error = "RangeError")

\* C4 as stated: building a measurement line from a vertex index < 0 or
\* >= vertexCount fails with an error and yields no line.
C4_IndexOutOfRangeFails ==
    (/\ call.op = "measure_lines"
     /\ \/ call.point1_idx \notin 0..(Len(LoadedMesh(call.content).vertices) - 1)
        \/ call.point2_idx \notin 0..(Len(LoadedMesh(call.content).vertices) - 1)) =>
        ~call.result.ok

(************************* claims: the application *************************)
FileNamesUploaded == { uploaded_files[k].name : k \in 1..Len(uploaded_files) }

AllLoad == \A k \in 1..Len(uploaded_files) : TrimeshLoad(uploaded_files[k].content).ok

\* what lines 183 and 185 show under a block
ShownModelInfo(block) == DictGet(all_model_info, block.model_info)

ShownMassTable(block) == DictGet(all_mass_dfs, block.mass_df)

\* the run of the script over one of the uploaded files alone
SoloRun(k) == Script(<< uploaded_files[k] >>, infill_percent, session, TRUE, PrevDicts)

\* C5 as stated: what is derived and shown for a file depends only on that
\* file, its own selections and the infill: whenever the file alone gives a
\* block, the session's run shows the same scene and tables for it.
C5_FilesIndependent ==
    \A k \in 1..Len(uploaded_files) :
        (SoloRun(k).run.error = "none") =>
            \E b \in 1..Len(run.blocks) :
                /\ run.blocks[b].file_name = uploaded_files[k].name
                /\ run.blocks[b].fig = SoloRun(k).run.blocks[1].fig
                /\ ShownModelInfo(run.blocks[b]) = SoloRun(k).dicts.infos[1][2]
                /\ ShownMassTable(run.blocks[b]) = SoloRun(k).dicts.dfs[1][2]

\* C6 as stated: after a run over a non-empty list of files that all load,
\* every file has exactly one block, the blocks are in upload order, and the
\* grid never reads an index >= the number of files.
C6_OneBlockPerFile ==
    (Len(uploaded_files) > 0 /\ AllLoad) =>
        /\ Len(run.blocks) = Len(uploaded_files)
        /\ \A k \in 1..Len(run.blocks) :
              /\ run.blocks[k].file_name = uploaded_files[k].name
              /\ run.blocks[k].fig.mesh3d.vertices
                    = LoadedMesh(uploaded_files[k].content).vertices
              /\ run.blocks[k].idx < Len(uploaded_files)

\* the scene text for the line between vertices i and j of a mesh
ShownDistance(mesh, i, j) ==
    plot_stl_with_arrows(mesh, "PLA", 0, "z", MeasureLines(mesh, i, j).lines).traces[1].text

\* C7: the distance shown for the vertex pair (i, j) of a file equals the
\* distance shown for (j, i).
C7_DistanceSymmetric ==
    \A b \in 1..Len(run.blocks) :
        LET name == run.blocks[b].file_name
            mesh == DictGet(all_meshes, name)
        IN  /\ run.blocks[b].fig.traces[1].text
                  = ShownDistance(mesh, session[<<"v1", name>>], session[<<"v2", name>>])
            /\ run.blocks[b].fig.traces[1].text
                  = ShownDistance(mesh, session[<<"v2", name>>], session[<<"v1", name>>])

C7_Witness ==
    \E b \in 1..Len(run.blocks) :
        /\ session[<<"v1", run.blocks[b].file_name>>] = 2
        /\ session[<<"v2", run.blocks[b].file_name>>] = 1
        /\ run.blocks[b].fig.traces[1].text = 361

\* some uploaded file with this name, and what the script derives from it
FilesNamed(name) == { k \in 1..Len(uploaded_files) : uploaded_files[k].name = name }

\* C8: after any sequence of interactions every derived value is the one a
\* computation from the current inputs gives: each dict entry belongs to a
\* file uploaded now and holds that file's mesh, metrics and mass table at the
\* current infill; each line is the one of the current vertex indices; each
\* scene holds exactly that line and the current selections.
C8_NothingCarriesOver ==
    /\ Len(all_meshes) = Len(all_model_info) /\ Len(all_meshes) = Len(all_mass_dfs)
    /\ Len(all_meshes) <= Len(uploaded_files)
    /\ \A d \in 1..Len(all_meshes) :
          \E k \in FilesNamed(all_meshes[d][1]) :
              /\ all_meshes[d][2] = LoadedMesh(uploaded_files[k].content)
              /\ all_model_info[d] = << uploaded_files[k].name,
                                        ModelInfo(LoadedMesh(uploaded_files[k].content),
                                                  FileSize(uploaded_files[k].content)) >>
              /\ all_mass_dfs[d][1] = uploaded_files[k].name
              /\ all_mass_dfs[d][2].infill_label = infill_percent * 10
              /\ \A r \in 1..Len(MATERIALS) :
                    /\ all_mass_dfs[d][2].rows[r].mass_100
                          = LoadedMesh(uploaded_files[k].content).volume * MATERIALS[r][2]
                    /\ all_mass_dfs[d][2].rows[r].mass_infill
                          = LoadedMesh(uploaded_files[k].content).volume * MATERIALS[r][2]
                               * infill_percent
    /\ \A d \in 1..Len(measure_lines_dict) :
          LET name == measure_lines_dict[d][1]
          IN  \E k \in FilesNamed(name) :
                 measure_lines_dict[d][2] =
                    << << LoadedMesh(uploaded_files[k].content).vertices[session[<<"v1", name>>] + 1],
                          LoadedMesh(uploaded_files[k].content).vertices[session[<<"v2", name>>] + 1] >> >>
    /\ (run.error = "none" /\ Len(uploaded_files) > 0) =>
          /\ DictKeys(all_meshes) = FileNamesUploaded
          /\ Len(run.blocks) = Len(all_meshes)
    /\ \A b \in 1..Len(run.blocks) :
          LET name == run.blocks[b].file_name
          IN  /\ name \in FileNamesUploaded
              /\ run.blocks[b].fig.mesh3d.vertices = DictGet(all_meshes, name).vertices
              /\ Len(run.blocks[b].fig.traces) = 1
              /\ << run.blocks[b].fig.traces[1].p1, run.blocks[b].fig.traces[1].p2 >>
                    = DictGet(measure_lines_dict, name)[1]
              /\ run.blocks[b].fig.annotation.material = session[<<"mat", name>>]
              /\ run.blocks[b].fig.mesh3d.intensity.field
                    = (CASE session[<<"stress", name>>] = "z" -> "z"
                         [] session[<<"stress", name>>] = "curvature" -> "vertex_defects"
                         [] OTHER -> "centroid_distance")

C8_Witness ==
    /\ Len(uploaded_files) = 1
    /\ infill_percent = 50
    /\ Len(run.blocks) = 1
    /\ run.blocks[1].file_name = "a.stl"
    /\ run.blocks[1].fig.annotation.material = "PETG"
    /\ run.blocks[1].fig.mesh3d.intensity.field = "centroid_distance"
    /\ session[<<"v1", "a.stl">>] = 2

\* C9 as stated: whenever the measurement line of a file is built, both vertex
\* indices passed to it lie in 0..vertexCount-1.
C9_IndicesInRange ==
    \A m \in 1..Len(run.measured) :
        /\ run.measured[m].point1_idx \in 0..(run.measured[m].vertex_count - 1)
        /\ run.measured[m].point2_idx \in 0..(run.measured[m].vertex_count - 1)

\* the mass-at-infill column of a table: its header and its cells
InfillColumn(df) == << df.infill_label, [r \in 1..Len(df.rows) |-> df.rows[r].mass_infill] >>

AnnotationMasses(blocks) == [b \in 1..Len(blocks) |-> blocks[b].fig.annotation.mass]

\* C10: the mass in a file's scene annotation is the selected material's
\* full-solid mass (volume * density, the "Mass @100% (g)" cell) printed with
\* two decimals; moving the infill slider leaves every annotation's mass as
\* it was while every shown table's mass-at-infill column changes.
C10_AnnotationIsFullMass ==
    /\ [](\A b \in 1..Len(run.blocks) :
            \E r \in 1..Len(MATERIALS) :
               /\ MATERIALS[r][1] = run.blocks[b].selected_material
               /\ run.blocks[b].fig.annotation.material = MATERIALS[r][1]
               /\ ShownMassTable(run.blocks[b]).rows[r].mass_100
                     = DictGet(all_meshes, run.blocks[b].file_name).volume * MATERIALS[r][2]
               /\ run.blocks[b].fig.annotation.mass
                     = RoundHalfEven(DictGet(all_meshes, run.blocks[b].file_name).volume
                                        * MATERIALS[r][2], 10000))
    /\ [][(infill_percent' # infill_percent /\ Len(run.blocks) > 0) =>
            /\ AnnotationMasses(run.blocks') = AnnotationMasses(run.blocks)
            /\ \A d \in 1..Len(all_mass_dfs) :
                  InfillColumn(all_mass_dfs'[d][2]) # InfillColumn(all_mass_dfs[d][2])]_vars

C10_Witness ==
    /\ infill_percent = 50
    /\ Len(run.blocks) = 1
    /\ run.blocks[1].selected_material = "PETG"
    /\ run.blocks[1].fig.annotation.mass = 127
    /\ ShownMassTable(run.blocks[1]).rows[2].mass_infill = 63500000

====
